---- MODULE Spec2Model ----
(***************************************************************************)
(* Certificate manager of the gateway (register / renew) as a state        *)
(* machine.  Every await of the source is a suspension point: the action   *)
(* that resumes an invocation runs its code up to the next await or to the *)
(* end of the function.  The registration server, the settings store, the  *)
(* ACME client (greenlock) and the file system are the environment: their  *)
(* answers are chosen with \E from small sets.                             *)
(***************************************************************************)
EXTENDS Integers, Sequences, FiniteSets, TLC

\* ---------------------------------------------------------------- bounds
NProcs == 2          \* invocations that can be in flight / remembered at once
MaxIssued == 2       \* certificates the ACME authority issues in one run
MaxChallenges == 1   \* DNS challenges the ACME client hands out per issuance

Procs == 1..NProcs

\* ---------------------------------------------------------------- values
Undefined == "undefined"          \* JavaScript undefined / absent field
Email == "user@example.com"
BaseDomain == "example.com"       \* config.get('ssltunnel.domain')
Names == {"a", "b"}               \* subdomain names
Tokens == {"t1"}                  \* tokens the registration server hands out
Digests == {"d1"}                 \* key-authorization digests
RecTokens == {Undefined, "", " rt "}   \* reclamationToken argument
OptOuts == {FALSE}                \* optout argument

\* JavaScript truthiness of a string-or-undefined value.
Truthy(v) == v # Undefined /\ v # ""

\* String.prototype.trim on the reclamation tokens of the model.
Trim(s) == IF s = " rt " THEN "rt" ELSE s

\* A decoded subscribe body: every field is a string or Undefined.
Body(error, token, name) == [error |-> error, token |-> token, name |-> name]
NoBody == Body(Undefined, Undefined, Undefined)

\* What fetch(subscribeUrl) / res.text() / JSON.parse can produce for a
\* subscription of `subdomain`: a network failure, a body that is not JSON,
\* an error payload, or a token (with or without the name echoed back).
SubscribeResponses(subdomain) ==
       { [ok |-> FALSE, json |-> FALSE, body |-> NoBody],
         [ok |-> TRUE,  json |-> FALSE, body |-> NoBody],
         [ok |-> TRUE,  json |-> TRUE,  body |-> Body("name taken", Undefined, Undefined)] }
  \cup { [ok |-> TRUE,  json |-> TRUE,  body |-> Body(Undefined, t, n)] :
            t \in Tokens, n \in {subdomain, Undefined} }

\* JavaScript Error objects: detail (ACME problem document) and the message
\* as its sequence of lines.
Err(name, detail, message) == [name |-> name, detail |-> detail, message |-> message]
FetchError == Err("FetchError", Undefined, <<"request failed">>)
SyntaxError == Err("SyntaxError", Undefined, <<"Unexpected token">>)
DbError == Err("DbError", Undefined, <<"SQLITE_ERROR">>)
FsError == Err("FsError", Undefined, <<"ENOSPC: no space left on device, write">>)
\* Rejections of le.register.
AcmeErrors ==
  { Err("AcmeError", "rate limited", <<"too many certificates">>),
    Err("AcmeError", Undefined, <<"challenge failed", "    at verify">>),
    Err("AcmeError", Undefined, <<"authorization failed">>) }

\* Arguments handed to the completion callback.
NoArg == [tag |-> "noarg", text |-> ""]
StrArg(s) == [tag |-> "string", text |-> s]
ErrArg(e) == [tag |-> "Error", text |-> e.name]

\* ------------------------------------------------------- requests sent
\* One shape for every outgoing call: the three registration-server
\* requests (query parameters as sent) and the ACME issuance call.
NoDomain == <<>>
NoReq == [op |-> Undefined, name |-> Undefined, email |-> Undefined,
          reclamationToken |-> Undefined, token |-> Undefined,
          challenge |-> Undefined, optout |-> Undefined,
          domain |-> NoDomain, challengeType |-> Undefined]

\* subscribeUrl: the reclamation token is appended, trimmed, only when truthy.
SubscribeReq(email, reclamationToken, subdomain) ==
  [NoReq EXCEPT !.op = "subscribe", !.name = subdomain, !.email = email,
                !.reclamationToken = IF Truthy(reclamationToken)
                                     THEN Trim(reclamationToken) ELSE Undefined]

DnsConfigReqSwapped(token, keyAuthDigest) ==
  [NoReq EXCEPT !.op = "dnsconfig", !.token = keyAuthDigest, !.challenge = token]

\* `${endpoint}/dnsconfig?token=${token}&challenge=${keyAuthDigest}`
DnsConfigReq(token, keyAuthDigest) ==
  [NoReq EXCEPT !.op = "dnsconfig", !.token = token, !.challenge = keyAuthDigest]

\* `${endpoint}/setemail?token=${token}&email=${email}&optout=${optout}`
SetEmailReq(token, email, optout) ==
  [NoReq EXCEPT !.op = "setemail", !.token = token, !.email = email,
                !.optout = IF optout THEN "true" ELSE "false"]

\* le.register({domains: [domain], challengeType})
AcmeReq(domain, challengeType) ==
  [NoReq EXCEPT !.op = "acme", !.domain = domain, !.challengeType = challengeType]

\* --------------------------------------------------- fragments of register
HasErrorNever(jsonToken) == FALSE

\* if (jsonToken.error)
HasError(jsonToken) == Truthy(jsonToken.error)

AssociatesEmailAlways(reclamationToken) == TRUE

\* if (!reclamationToken): the email is associated unless the name was reclaimed
AssociatesEmail(reclamationToken) == ~Truthy(reclamationToken)

\* err.detail || err.message.substring(0, err.message.indexOf('\n')):
\* without a newline indexOf is -1 and substring(0, -1) is the empty string.
ErrorText(err) ==
  IF Truthy(err.detail) THEN err.detail
  ELSE IF Len(err.message) > 1 THEN err.message[1] ELSE ""

OnSetEmailErrorFallsThrough(calls, e) == calls \o <<ErrArg(e), NoArg>>

\* The catch block around the setemail request: callback(e); return.
OnSetEmailError(calls, e) == Append(calls, ErrArg(e))

CanReadNameOfAnything(loaded) == TRUE

\* tunnelToken.name can be read unless Settings.get resolved to undefined
\* (reading a property of undefined throws a TypeError).
CanReadName(loaded) == loaded.set

RenewDomainFromToken(tunnelToken) == <<tunnelToken.token, BaseDomain>>

\* `${tunnelToken.name}.${config.get('ssltunnel.domain')}`
RenewDomain(tunnelToken) == <<tunnelToken.name, BaseDomain>>

\* ------------------------------------------------------ certificate files
\* A file holds one part of the bundle of one issuance: the number of the
\* issuance, the domain it was for, and which part of the bundle it is.
\* Issuance 0 is the one of an earlier run; id -1 is no file.
Part(id, domain, part) == [id |-> id, domain |-> domain, part |-> part]
Absent == Part(-1, NoDomain, "none")
\* The result object of the id-th successful issuance, for `domain`.
Results(id, domain) ==
  [cert |-> Part(id, domain, "cert"), privkey |-> Part(id, domain, "privkey"),
   chain |-> Part(id, domain, "chain")]
NoResults == [cert |-> Absent, privkey |-> Absent, chain |-> Absent]
\* The three files when all of them hold the bundle `res`.
Bundle(res) == [certificate |-> res.cert, privatekey |-> res.privkey,
                chain |-> res.chain]
NoFiles == [certificate |-> Absent, privatekey |-> Absent, chain |-> Absent]

writeCertificatesKeyFirst(f, res, n) ==
  [certificate |-> IF n >= 2 THEN res.cert ELSE f.certificate,
   privatekey  |-> IF n >= 1 THEN res.cert ELSE f.privatekey,
   chain       |-> IF n >= 3 THEN res.chain ELSE f.chain]

writeCertificatesUnawaited(f, res, n) ==
  [certificate |-> IF n >= 1 THEN res.cert ELSE f.certificate,
   privatekey  |-> f.privatekey,
   chain       |-> f.chain]

\* The files after the first n of the three fs.writeFileSync calls of
\* writeCertificates(res) have completed (n = 3: the function returned).
writeCertificates(f, res, n) ==
  [certificate |-> IF n >= 1 THEN res.cert ELSE f.certificate,
   privatekey  |-> IF n >= 2 THEN res.privkey ELSE f.privatekey,
   chain       |-> IF n >= 3 THEN res.chain ELSE f.chain]

\* What fs.writeFileSync leaves of a file it opened (truncating it) and did
\* not finish writing: neither the old content nor the new part.
Torn(new) == Part(new.id, new.domain, "torn")

\* The files when n writes completed and the next one was cut short.
Interrupted(f, res, n) ==
  [certificate |-> IF n = 0 THEN Torn(res.cert)
                            ELSE writeCertificates(f, res, n).certificate,
   privatekey  |-> IF n = 1 THEN Torn(res.privkey)
                            ELSE writeCertificates(f, res, n).privatekey,
   chain       |-> IF n = 2 THEN Torn(res.chain)
                            ELSE writeCertificates(f, res, n).chain]

\* How a call of writeCertificates can end: it returns; the k-th write
\* throws with k - 1 files written, its own file untouched (the open failed)
\* or torn (the write failed); or the process dies between two writes or
\* in the middle of one.
WriteOutcomes ==
       { [kind |-> "ok", n |-> 3, torn |-> FALSE] }
  \cup { [kind |-> "throw", n |-> k - 1, torn |-> t] : k \in 1..3, t \in BOOLEAN }
  \cup { [kind |-> "crash", n |-> k, torn |-> FALSE] : k \in 1..2 }
  \cup { [kind |-> "crash", n |-> k - 1, torn |-> TRUE] : k \in 1..3 }

\* The files writeCertificates(res) leaves when it ends as w.
Written(f, res, w) ==
  IF w.torn THEN Interrupted(f, res, w.n) ELSE writeCertificates(f, res, w.n)

\* ------------------------------------------------------------------ state
VARIABLES
  settings,     \* the persisted tunneltoken record: [set, value]
  files,        \* certificate.pem, privatekey.pem, chain.pem in sslDir
  issued,       \* the number of certificates the authority has issued in this run
  kind,         \* kind[p]: "none", "register" or "renew"
  pc,           \* pc[p]: the await the invocation is suspended at
  args,         \* args[p]: the arguments of register
  jsonToken,    \* jsonToken[p]: the decoded subscribe body
  token,        \* token[p]: the token captured by leDnsResponse
  tunnelToken,  \* tunnelToken[p]: what renew loaded from the settings
  results,      \* results[p]: what le.register resolved to
  handed,       \* handed[p]: the digests the ACME client handed to leDnsResponse
  reqs,         \* reqs[p]: the calls the invocation has sent, in order
  cb,           \* cb[p]: the arguments of the calls of callback, in order
  logs,         \* logs[p]: the console.error messages of the invocation
  recent        \* which of register / renew the last two invocations were

gwvars == <<settings, files, issued, kind, pc, args, jsonToken, token,
            tunnelToken, results, handed, reqs, cb, logs, recent>>

\* The rule store (rules-engine/Database.js) and one getRules call.
VARIABLES
  table,        \* the rules table: id |-> description text
  gpc,          \* where the getRules call is
  rows,         \* the rows the SELECT handed to the callback
  rules,        \* the mapping getRules resolved with: id |-> description
  pending,      \* ids whose updateRule promise has not settled
  updates,      \* the UPDATE statements issued: <<id, description text>>
  completed,    \* ids whose UPDATE has completed
  failed,       \* an updateRule promise rejected (Promise.all rejected)
  reason        \* what getRules rejected with

dbvars == <<table, gpc, rows, rules, pending, updates, completed, failed, reason>>

vars == <<gwvars, dbvars>>

NotSet == [set |-> FALSE, value |-> NoBody]
Stored(value) == [set |-> TRUE, value |-> value]

NoArgs == [email |-> Undefined, reclamationToken |-> Undefined,
           subdomain |-> Undefined, fulldomain |-> NoDomain, optout |-> FALSE]

InFlightPcs == {"subscribe", "save", "issue", "dnsconfig", "validate", "refused",
                "setemail", "load", "renewissue"}
Idle(p) == pc[p] \notin InFlightPcs
\* No invocation is suspended anywhere.
Quiet == \A p \in Procs : Idle(p)

\* The gateway starts either fresh or already registered under name "a"
\* with the certificate of an earlier run (issuance 0).
NoTable == <<>>
RulesInit(tables) ==
  /\ table \in tables
  /\ gpc = "idle"
  /\ rows = NoTable
  /\ rules = NoTable
  /\ pending = {}
  /\ updates = {}
  /\ completed = {}
  /\ failed = FALSE
  /\ reason = Undefined

\* No invocation of register or renew has started.
GatewayIdle ==
  /\ issued = 0
  /\ kind = [p \in Procs |-> "none"]
  /\ pc = [p \in Procs |-> "idle"]
  /\ args = [p \in Procs |-> NoArgs]
  /\ jsonToken = [p \in Procs |-> NoBody]
  /\ token = [p \in Procs |-> Undefined]
  /\ tunnelToken = [p \in Procs |-> NotSet]
  /\ results = [p \in Procs |-> NoResults]
  /\ handed = [p \in Procs |-> <<>>]
  /\ reqs = [p \in Procs |-> <<>>]
  /\ cb = [p \in Procs |-> <<>>]
  /\ logs = [p \in Procs |-> <<>>]
  /\ recent = <<>>

Init ==
  /\ RulesInit({NoTable})
  /\ \/ settings = NotSet /\ files = NoFiles
     \/ /\ settings = Stored(Body(Undefined, "t0", "a"))
        /\ files = Bundle(Results(0, <<"a", BaseDomain>>))
  /\ GatewayIdle

\* ---------------------------------------------------------------- steps
\* After the process died nothing of what was in flight resumes.
Crashed == [p \in Procs |-> IF pc[p] \in InFlightPcs THEN "crashed" ELSE pc[p]]

\* A fresh invocation takes the first free slot p: every local starts
\* undefined.  The locals of the invocations that have ended are garbage
\* and are dropped.
Fresh(f, p, v, none) ==
  [q \in Procs |-> IF q = p THEN v ELSE IF Idle(q) THEN none ELSE f[q]]
Begin(p, k, a, at, sent) ==
  /\ UNCHANGED dbvars
  /\ Idle(p) /\ \A q \in Procs : q < p => ~Idle(q)
  /\ kind' = Fresh(kind, p, k, "none")
  /\ pc' = Fresh(pc, p, at, "idle")
  /\ args' = Fresh(args, p, a, NoArgs)
  /\ jsonToken' = Fresh(jsonToken, p, NoBody, NoBody)
  /\ token' = Fresh(token, p, Undefined, Undefined)
  /\ tunnelToken' = Fresh(tunnelToken, p, NotSet, NotSet)
  /\ results' = Fresh(results, p, NoResults, NoResults)
  /\ handed' = Fresh(handed, p, <<>>, <<>>)
  /\ reqs' = Fresh(reqs, p, sent, <<>>)
  /\ cb' = Fresh(cb, p, <<>>, <<>>)
  /\ logs' = Fresh(logs, p, <<>>, <<>>)
  /\ recent' = IF recent = <<>> THEN <<k>> ELSE <<recent[Len(recent)], k>>
  /\ UNCHANGED <<settings, files, issued>>

\* register(email, reclamationToken, subdomain, fulldomain, optout, callback)
\* up to `await fetch(subscribeUrl)`.
StartRegister(p, email, reclamationToken, subdomain, fulldomain, optout) ==
  Begin(p, "register",
        [email |-> email, reclamationToken |-> reclamationToken,
         subdomain |-> subdomain, fulldomain |-> fulldomain, optout |-> optout],
        "subscribe", <<SubscribeReq(email, reclamationToken, subdomain)>>)

\* The catch block of the registration try and the statement after it:
\* callback(err.detail || first line of err.message), then callback().
CatchRegistration(p, err) ==
  /\ logs' = [logs EXCEPT ![p] = Append(@, "Registration failed:")]
  /\ cb' = [cb EXCEPT ![p] = @ \o <<StrArg(ErrorText(err)), NoArg>>]
  /\ pc' = [pc EXCEPT ![p] = "done"]

\* The subscribe response arrives: res.text(), JSON.parse, the error test,
\* token = jsonToken.token, and the call of Settings.set.
SubscribeResponse(p, r) ==
  /\ UNCHANGED dbvars
  /\ kind[p] = "register" /\ pc[p] = "subscribe"
  /\ r \in SubscribeResponses(args[p].subdomain)
  /\ IF ~r.ok \/ ~r.json
     THEN /\ logs' = [logs EXCEPT ![p] = Append(@, "Failed to subscribe:")]
          /\ cb' = [cb EXCEPT ![p] =
                      Append(@, ErrArg(IF r.ok THEN SyntaxError ELSE FetchError))]
          /\ pc' = [pc EXCEPT ![p] = "done"]
          /\ UNCHANGED <<jsonToken, token>>
     ELSE /\ jsonToken' = [jsonToken EXCEPT ![p] = r.body]
          /\ IF HasError(r.body)
             THEN /\ cb' = [cb EXCEPT ![p] = Append(@, StrArg(r.body.error))]
                  /\ pc' = [pc EXCEPT ![p] = "done"]
                  /\ UNCHANGED token
             ELSE /\ token' = [token EXCEPT ![p] = r.body.token]
                  /\ pc' = [pc EXCEPT ![p] = "save"]
                  /\ UNCHANGED cb
          /\ UNCHANGED logs
  /\ UNCHANGED <<settings, files, issued, kind, args, tunnelToken, results,
                 handed, reqs, recent>>

SaveResultNotAwaited(p, ok) ==
  /\ UNCHANGED dbvars
  /\ kind[p] = "register" /\ pc[p] = "save"
  /\ settings' = IF ok THEN Stored(jsonToken[p]) ELSE settings
  /\ reqs' = [reqs EXCEPT ![p] = Append(@, AcmeReq(args[p].fulldomain, "dns-01"))]
  /\ pc' = [pc EXCEPT ![p] = "issue"]
  /\ UNCHANGED <<files, issued, kind, args, jsonToken, token, tunnelToken,
                 results, handed, cb, logs, recent>>

\* Settings.set('tunneltoken', jsonToken) settles; on success le.register is
\* called for fulldomain with the dns-01 challenge.
SaveResult(p, ok) ==
  /\ UNCHANGED dbvars
  /\ kind[p] = "register" /\ pc[p] = "save"
  /\ IF ok
     THEN /\ settings' = Stored(jsonToken[p])
          /\ reqs' = [reqs EXCEPT ![p] = Append(@, AcmeReq(args[p].fulldomain, "dns-01"))]
          /\ pc' = [pc EXCEPT ![p] = "issue"]
          /\ UNCHANGED <<cb, logs>>
     ELSE /\ logs' = [logs EXCEPT ![p] = Append(@, "Failed to subscribe:")]
          /\ cb' = [cb EXCEPT ![p] = Append(@, ErrArg(DbError))]
          /\ pc' = [pc EXCEPT ![p] = "done"]
          /\ UNCHANGED <<settings, reqs>>
  /\ UNCHANGED <<files, issued, kind, args, jsonToken, token, tunnelToken,
                 results, handed, recent>>

\* The ACME client calls leChallenge.leDnsResponse(challenge,
\* keyAuthorization, keyAuthDigest): the dnsconfig request is sent.
LeDnsResponse(p, keyAuthDigest) ==
  /\ UNCHANGED dbvars
  /\ kind[p] = "register" /\ pc[p] \in {"issue", "validate"}
  /\ Len(handed[p]) < MaxChallenges
  /\ handed' = [handed EXCEPT ![p] = Append(@, keyAuthDigest)]
  /\ reqs' = [reqs EXCEPT ![p] = Append(@, DnsConfigReq(token[p], keyAuthDigest))]
  /\ pc' = [pc EXCEPT ![p] = "dnsconfig"]
  /\ UNCHANGED <<settings, files, issued, kind, args, jsonToken, token,
                 tunnelToken, results, cb, logs, recent>>

\* The dnsconfig request settles.  On success leDnsResponse resolves.  On
\* failure its catch logs, calls callback(e) and rejects the promise it gave
\* the ACME client; register is still suspended at le.register, which the
\* client has yet to reject.
DnsConfigResponse(p, ok) ==
  /\ UNCHANGED dbvars
  /\ kind[p] = "register" /\ pc[p] = "dnsconfig"
  /\ IF ok
     THEN /\ pc' = [pc EXCEPT ![p] = "validate"]
          /\ UNCHANGED <<cb, logs>>
     ELSE /\ logs' = [logs EXCEPT ![p] =
                        Append(@, "Failed to set DNS token on registration server:")]
          /\ cb' = [cb EXCEPT ![p] = Append(@, ErrArg(FetchError))]
          /\ pc' = [pc EXCEPT ![p] = "refused"]
  /\ UNCHANGED <<settings, files, issued, kind, args, jsonToken, token,
                 tunnelToken, results, handed, reqs, recent>>

\* le.register rejects (the challenge could not be set up or was not
\* validated, or the authority refused): the catch block of register.
RegisterIssueFails(p, err) ==
  /\ UNCHANGED dbvars
  /\ kind[p] = "register" /\ pc[p] \in {"issue", "validate", "refused"}
  /\ CatchRegistration(p, err)
  /\ UNCHANGED <<settings, files, issued, kind, args, jsonToken, token,
                 tunnelToken, results, handed, reqs, recent>>

\* le.register resolves with a new bundle: writeCertificates(results), then
\* the setemail request unless the name was reclaimed, else callback().
RegisterIssued(p, w) ==
  /\ UNCHANGED dbvars
  /\ kind[p] = "register" /\ pc[p] \in {"issue", "validate"}
  /\ issued < MaxIssued
  /\ w \in WriteOutcomes
  /\ issued' = issued + 1
  /\ results' = [results EXCEPT ![p] = Results(issued + 1, args[p].fulldomain)]
  /\ files' = Written(files, results'[p], w)
  /\ CASE w.kind = "crash" ->
            /\ pc' = Crashed
            /\ UNCHANGED <<reqs, cb, logs>>
       [] w.kind = "throw" ->
            /\ CatchRegistration(p, FsError)
            /\ UNCHANGED reqs
       [] w.kind = "ok" /\ AssociatesEmail(args[p].reclamationToken) ->
            /\ reqs' = [reqs EXCEPT ![p] =
                          Append(@, SetEmailReq(token[p], args[p].email, args[p].optout))]
            /\ pc' = [pc EXCEPT ![p] = "setemail"]
            /\ UNCHANGED <<cb, logs>>
       [] OTHER ->
            /\ cb' = [cb EXCEPT ![p] = Append(@, NoArg)]
            /\ pc' = [pc EXCEPT ![p] = "done"]
            /\ UNCHANGED <<reqs, logs>>
  /\ UNCHANGED <<settings, kind, args, jsonToken, token, tunnelToken, handed, recent>>

\* The setemail request settles: callback() on success, callback(e) and
\* return on failure.
SetEmailResponse(p, ok) ==
  /\ UNCHANGED dbvars
  /\ kind[p] = "register" /\ pc[p] = "setemail"
  /\ IF ok
     THEN /\ cb' = [cb EXCEPT ![p] = Append(@, NoArg)]
          /\ UNCHANGED logs
     ELSE /\ logs' = [logs EXCEPT ![p] = Append(@, "Failed to set email on server:")]
          /\ cb' = [cb EXCEPT ![p] = OnSetEmailError(@, FetchError)]
  /\ pc' = [pc EXCEPT ![p] = "done"]
  /\ UNCHANGED <<settings, files, issued, kind, args, jsonToken, token,
                 tunnelToken, results, handed, reqs, recent>>

\* renew() up to `await Settings.get('tunneltoken')`.
StartRenew(p) == Begin(p, "renew", NoArgs, "load", <<>>)

\* Settings.get settles.  A rejection is logged and renew returns.  A value
\* is taken as it is: reading .name of an absent record throws out of
\* renew; otherwise le.register is called for name.basedomain with http-01.
RenewLoad(p, rejected) ==
  /\ UNCHANGED dbvars
  /\ kind[p] = "renew" /\ pc[p] = "load"
  /\ IF rejected
     THEN /\ logs' = [logs EXCEPT ![p] = Append(@, "Tunnel token not set!")]
          /\ pc' = [pc EXCEPT ![p] = "done"]
          /\ UNCHANGED <<tunnelToken, reqs>>
     ELSE /\ tunnelToken' = [tunnelToken EXCEPT ![p] = settings]
          /\ IF ~CanReadName(settings)
             THEN /\ pc' = [pc EXCEPT ![p] = "threw"]
                  /\ UNCHANGED reqs
             ELSE /\ reqs' = [reqs EXCEPT ![p] =
                                Append(@, AcmeReq(RenewDomain(settings.value), "http-01"))]
                  /\ pc' = [pc EXCEPT ![p] = "renewissue"]
          /\ UNCHANGED logs
  /\ UNCHANGED <<settings, files, issued, kind, args, jsonToken, token,
                 results, handed, cb, recent>>

\* le.register rejects in renew: logged, renew returns.
RenewIssueFails(p) ==
  /\ UNCHANGED dbvars
  /\ kind[p] = "renew" /\ pc[p] = "renewissue"
  /\ logs' = [logs EXCEPT ![p] = Append(@, "Renewal failed:")]
  /\ pc' = [pc EXCEPT ![p] = "done"]
  /\ UNCHANGED <<settings, files, issued, kind, args, jsonToken, token,
                 tunnelToken, results, handed, reqs, cb, recent>>

\* le.register resolves in renew: writeCertificates(results).
RenewIssued(p, w) ==
  /\ UNCHANGED dbvars
  /\ kind[p] = "renew" /\ pc[p] = "renewissue"
  /\ issued < MaxIssued
  /\ w \in WriteOutcomes
  /\ issued' = issued + 1
  /\ results' = [results EXCEPT ![p] =
                    Results(issued + 1, RenewDomain(tunnelToken[p].value))]
  /\ files' = Written(files, results'[p], w)
  /\ CASE w.kind = "crash" ->
            /\ pc' = Crashed
            /\ UNCHANGED logs
       [] w.kind = "throw" ->
            /\ logs' = [logs EXCEPT ![p] = Append(@, "Renewal failed:")]
            /\ pc' = [pc EXCEPT ![p] = "done"]
       [] OTHER ->
            /\ pc' = [pc EXCEPT ![p] = "done"]
            /\ UNCHANGED logs
  /\ UNCHANGED <<settings, kind, args, jsonToken, token, tunnelToken, handed,
                 reqs, cb, recent>>

\* ------------------------------------------------------- specifications
RegisterArgs ==
  { [email |-> Email, reclamationToken |-> rt, subdomain |-> n,
     fulldomain |-> <<n, BaseDomain>>, optout |-> o] :
       rt \in RecTokens, n \in Names, o \in OptOuts }

Step ==
  \/ \E p \in Procs : \E r \in SubscribeResponses(args[p].subdomain) :
        SubscribeResponse(p, r)
  \/ \E p \in Procs, ok \in BOOLEAN : SaveResult(p, ok)
  \/ \E p \in Procs, d \in Digests : LeDnsResponse(p, d)
  \/ \E p \in Procs, ok \in BOOLEAN : DnsConfigResponse(p, ok)
  \/ \E p \in Procs, err \in AcmeErrors : RegisterIssueFails(p, err)
  \/ \E p \in Procs, w \in WriteOutcomes : RegisterIssued(p, w)
  \/ \E p \in Procs, ok \in BOOLEAN : SetEmailResponse(p, ok)
  \/ \E p \in Procs, rejected \in BOOLEAN : RenewLoad(p, rejected)
  \/ \E p \in Procs : RenewIssueFails(p)
  \/ \E p \in Procs, w \in WriteOutcomes : RenewIssued(p, w)

\* One invocation at a time: an invocation starts when none is suspended.
Next ==
  \/ \E p \in Procs, a \in RegisterArgs :
        Quiet /\ StartRegister(p, a.email, a.reclamationToken, a.subdomain,
                               a.fulldomain, a.optout)
  \/ \E p \in Procs : Quiet /\ StartRenew(p)
  \/ Step

Spec == Init /\ [][Next]_vars

\* Invocations overlap: register and renew may be called while others are
\* suspended, and the suspended ones resume in any order.  The environment
\* is kept small: registrations of subdomain "b" without reclamation token,
\* one subscribe answer, one digest, the gateway's HTTP calls succeed,
\* le.register resolves or rejects, and no file write fails.
ConcArg(a) == a.reclamationToken = Undefined /\ a.subdomain = "b"
ConcResponses(subdomain) ==
  {r \in SubscribeResponses(subdomain) : /\ r.json
                                          /\ r.body.error = Undefined
                                          /\ r.body.token = "t1"
                                          /\ r.body.name = subdomain}
CompleteWrite(w) == w.kind = "ok"
NextConc ==
  \/ \E p \in Procs, a \in RegisterArgs :
        ConcArg(a) /\ StartRegister(p, a.email, a.reclamationToken,
                                    a.subdomain, a.fulldomain, a.optout)
  \/ \E p \in Procs : StartRenew(p)
  \/ \E p \in Procs : \E r \in ConcResponses(args[p].subdomain) :
        SubscribeResponse(p, r)
  \/ \E p \in Procs : SaveResult(p, TRUE)
  \/ \E p \in Procs : LeDnsResponse(p, "d1")
  \/ \E p \in Procs, ok \in BOOLEAN : DnsConfigResponse(p, ok)
  \/ \E p \in Procs : RegisterIssueFails(p, FetchError)
  \/ \E p \in Procs, w \in WriteOutcomes : CompleteWrite(w) /\ RegisterIssued(p, w)
  \/ \E p \in Procs : SetEmailResponse(p, TRUE)
  \/ \E p \in Procs, rejected \in BOOLEAN : RenewLoad(p, rejected)
  \/ \E p \in Procs : RenewIssueFails(p)
  \/ \E p \in Procs, w \in WriteOutcomes : CompleteWrite(w) /\ RenewIssued(p, w)

SpecConc == Init /\ [][NextConc]_vars

\* ------------------------------------------------------- the rule store
MaxRules == 2
RuleIds == 1..MaxRules

\* A rule description: an opaque versioned object.
Desc(format, name) == [format |-> format, name |-> name]
NoDesc == Desc("undefined", "undefined")
Descs == {Desc(f, n) : f \in {"old", "current"}, n \in {"x", "y"}}

\* JSON.stringify and JSON.parse of a description: the text of the column.
Stringify(desc) == <<"{", desc.format, desc.name, "}">>
Parse(text) == Desc(text[2], text[3])

\* DatabaseMigrate.migrate: the description brought to the current format,
\* or nothing when it already is in it.
migrate(desc) ==
  IF desc.format = "old" THEN [desc EXCEPT !.format = "current"] ELSE NoDesc

\* The tables createRule and updateRule can have left behind.
Tables ==
  UNION {[ids -> {Stringify(d) : d \in Descs}] : ids \in SUBSET RuleIds}

\* updateRule: UPDATE rules SET description = ? WHERE id = ?
updateRule(t, id, desc) ==
  IF id \in DOMAIN t THEN [t EXCEPT ![id] = Stringify(desc)] ELSE t

\* createRule: INSERT INTO rules (description) VALUES (?); the INTEGER
\* PRIMARY KEY of the new row is one more than the largest id in the table.
lastID(t) ==
  IF DOMAIN t = {} THEN 1
  ELSE (CHOOSE m \in DOMAIN t : \A i \in DOMAIN t : i <= m) + 1
createRule(t, desc) ==
  [id \in DOMAIN t \cup {lastID(t)} |->
     IF id \in DOMAIN t THEN t[id] ELSE Stringify(desc)]

\* deleteRule: DELETE FROM rules WHERE id = ?
deleteRule(t, id) == [i \in DOMAIN t \ {id} |-> t[i]]

\* if (updatedDesc): the row is to be written back.
Migrated(row) == migrate(Parse(row)) # NoDesc

\* The mapping the callback builds from the rows: rules[row.id] = desc.
Entry(row) == IF Migrated(row) THEN migrate(Parse(row)) ELSE Parse(row)
RulesOf(r) == [id \in DOMAIN r |-> Entry(r[id])]

\* Promise.all(updatePromises).then(() => resolve(rules)): resolve runs when
\* every update promise has been fulfilled.
ResolvesAtOnce(pend, fail) == ~fail
AllFulfilled(pend, fail) == pend = {} /\ ~fail

Settled == gpc \in {"resolved", "rejected"}

\* getRules(): db.db.all is called with the SELECT.
getRules ==
  /\ gpc = "idle" \/ Settled
  /\ gpc' = "query"
  /\ rows' = NoTable /\ rules' = NoTable
  /\ pending' = {} /\ updates' = {} /\ completed' = {}
  /\ failed' = FALSE /\ reason' = Undefined
  /\ UNCHANGED <<table, gwvars>>

\* The callback of db.db.all: an error rejects; otherwise every row is
\* parsed and migrated, a migrated row is written back with updateRule, and
\* the promise resolves once Promise.all of the updates is fulfilled.
QueryResult(err) ==
  /\ gpc = "query"
  /\ IF err # Undefined
       THEN /\ gpc' = "rejected" /\ reason' = err
            /\ UNCHANGED <<rows, rules, pending, updates>>
       ELSE /\ rows' = table
            /\ pending' = {id \in DOMAIN table : Migrated(table[id])}
            /\ updates' = {<<id, Stringify(Entry(table[id]))>> :
                             id \in {i \in DOMAIN table : Migrated(table[i])}}
            /\ gpc' = IF AllFulfilled(pending', FALSE) THEN "resolved" ELSE "waiting"
            /\ rules' = IF gpc' = "resolved" THEN RulesOf(table) ELSE NoTable
            /\ UNCHANGED reason
  /\ UNCHANGED <<table, completed, failed, gwvars>>

\* One updateRule promise settles.  Fulfilled: the row holds the migrated
\* text.  Rejected: Promise.all rejects, and the promise then() returned has
\* no handler, so neither resolve nor reject of getRules is ever called.
UpdateSettles(id, ok) ==
  /\ id \in pending
  /\ pending' = pending \ {id}
  /\ IF ok
       THEN /\ table' = updateRule(table, id, Entry(rows[id]))
            /\ completed' = completed \cup {id}
            /\ UNCHANGED failed
       ELSE /\ failed' = TRUE
            /\ UNCHANGED <<table, completed>>
  /\ gpc' = IF gpc = "waiting" /\ AllFulfilled(pending', failed')
              THEN "resolved" ELSE gpc
  /\ rules' = IF gpc = "waiting" /\ gpc' = "resolved" THEN RulesOf(rows) ELSE rules
  /\ UNCHANGED <<rows, updates, reason, gwvars>>

\* A client of the rule store calls createRule, updateRule or deleteRule
\* and the statement runs, whatever getRules is doing.
CreateRule(desc) ==
  /\ lastID(table) \in RuleIds
  /\ table' = createRule(table, desc)
  /\ UNCHANGED <<gpc, rows, rules, pending, updates, completed, failed, reason, gwvars>>

UpdateRule(id, desc) ==
  /\ table' = updateRule(table, id, desc)
  /\ UNCHANGED <<gpc, rows, rules, pending, updates, completed, failed, reason, gwvars>>

DeleteRule(id) ==
  /\ table' = deleteRule(table, id)
  /\ UNCHANGED <<gpc, rows, rules, pending, updates, completed, failed, reason, gwvars>>

InitRules ==
  /\ RulesInit(Tables)
  /\ settings = NotSet /\ files = NoFiles
  /\ GatewayIdle

NextRules ==
  \/ getRules
  \/ \E err \in {Undefined, "SQLITE_ERROR"} : QueryResult(err)
  \/ \E id \in RuleIds, ok \in BOOLEAN : UpdateSettles(id, ok)
  \/ \E desc \in Descs : CreateRule(desc)
  \/ \E id \in RuleIds, desc \in Descs : UpdateRule(id, desc)
  \/ \E id \in RuleIds : DeleteRule(id)

SpecRules == InitRules /\ [][NextRules]_vars

\* ------------------------------------------------------------ properties
Register(p) == kind[p] = "register"
Renew(p) == kind[p] = "renew"
HasOp(p, op) == \E i \in 1..Len(reqs[p]) : reqs[p][i].op = op
CountOp(p, op) == Cardinality({i \in 1..Len(reqs[p]) : reqs[p][i].op = op})
Logged(p, msg) == \E i \in 1..Len(logs[p]) : logs[p][i] = msg
\* writeCertificates has run in invocation p (it follows le.register at once).
Wrote(p) == results[p] # NoResults
\* Whether a caller testing `if (err)` sees an error in a callback argument.
IsErrorArg(a) == a.tag = "Error" \/ (a.tag = "string" /\ a.text # "")
\* The three files are the three parts of one bundle, or none exists.
Whole(f) ==
  \/ f = NoFiles
  \/ /\ f.certificate.id >= 0
     /\ f = Bundle(Results(f.certificate.id, f.certificate.domain))

\* C1: when the decoded subscribe body carries an error, the invocation ends
\* there: the subscribe request is the only call it has sent (no dnsconfig,
\* no ACME issuance), it has written no certificate file, the caller got
\* exactly that error, and the step that decodes the body leaves the
\* persisted tunneltoken record and the files as they were.
ErrorPayload(p) == Register(p) /\ jsonToken[p].error # Undefined
C1_ErrorPayloadFailsFast ==
  /\ [](\A p \in Procs : ErrorPayload(p) =>
          /\ pc[p] = "done"
          /\ Len(reqs[p]) = 1 /\ reqs[p][1].op = "subscribe"
          /\ ~Wrote(p)
          /\ cb[p] = <<[tag |-> "string", text |-> jsonToken[p].error]>>)
  /\ [][\A p \in Procs : ErrorPayload(p)' /\ ~ErrorPayload(p) =>
          settings' = settings /\ files' = files]_vars
C1_Witness ==
  \E p \in Procs : ErrorPayload(p) /\ pc[p] = "done" /\ settings.set /\ Whole(files)
                     /\ files # NoFiles

\* C2: a register invocation that was given a reclamation token has sent no
\* setemail request, in any state of any of its paths.
C2_NoSetEmailWhenReclaimed ==
  \A p \in Procs :
    Register(p) /\ Truthy(args[p].reclamationToken) => ~HasOp(p, "setemail")
C2_Witness ==
  \E p \in Procs : /\ Register(p) /\ Truthy(args[p].reclamationToken)
                   /\ pc[p] = "done" /\ Wrote(p) /\ files = Bundle(results[p])
                   /\ cb[p] = <<NoArg>>

\* C3: a register invocation without a reclamation token that got as far as
\* the setemail request and in which nothing failed has, when it returns,
\* left the three files holding the bundle of its own issuance, has sent
\* setemail exactly once, and has called back once, without an error.
AllSucceeded(p) ==
  Register(p) /\ pc[p] = "done" /\ HasOp(p, "setemail") /\ logs[p] = <<>>
C3_SuccessfulRegistration ==
  \A p \in Procs :
    AllSucceeded(p) /\ ~Truthy(args[p].reclamationToken) =>
      /\ Wrote(p) /\ files = Bundle(results[p])
      /\ files.certificate.part = "cert" /\ files.privatekey.part = "privkey"
      /\ files.chain.part = "chain"
      /\ CountOp(p, "setemail") = 1
      /\ cb[p] = <<NoArg>>
C3_Witness ==
  \E p \in Procs : /\ AllSucceeded(p) /\ args[p].reclamationToken = ""
                   /\ files = Bundle(results[p]) /\ results[p].cert.id = 2

\* C4 (as claimed): once the subscribe step of a register invocation has
\* succeeded and the token is saved, the persisted record has the name
\* passed to register and the token of the subscribe response.
Saved(p) == Register(p) /\ HasOp(p, "acme")
C4_PersistedNameIsSubdomain ==
  \A p \in Procs :
    Saved(p) => /\ settings.set
                /\ settings.value.name = args[p].subdomain
                /\ settings.value.token = jsonToken[p].token

\* C5 (as claimed): a register invocation in which a step failed has given
\* the caller a non-empty error and has never called back with success.
Failed(p) == Register(p) /\ pc[p] = "done" /\ (logs[p] # <<>> \/ ErrorPayload(p))
C5_FailuresAreReported ==
  \A p \in Procs :
    Failed(p) => /\ cb[p] # <<>>
                 /\ \A i \in 1..Len(cb[p]) : IsErrorArg(cb[p][i])

\* C6: when the setemail request of a register invocation fails, the three
\* files hold the bundle issued in that invocation, and what the caller is
\* given is the setemail error and nothing else.
SetEmailFailed(p) == Register(p) /\ Logged(p, "Failed to set email on server:")
C6_SetEmailFailureKeepsCertificate ==
  \A p \in Procs :
    SetEmailFailed(p) =>
      /\ ~Truthy(args[p].reclamationToken)
      /\ pc[p] = "done"
      /\ Wrote(p) /\ files = Bundle(results[p])
      /\ cb[p] = <<[tag |-> "Error", text |-> "FetchError"]>>
C6_Witness ==
  \E p \in Procs : SetEmailFailed(p) /\ files = Bundle(results[p])
                     /\ results[p].cert.id = 1

\* C7: while no tunneltoken record is persisted, a renew invocation has sent
\* no call at all (no ACME issuance, no registrar request), has not run
\* writeCertificates, and none of its steps changes the files; this holds
\* when Settings.get rejects and when it resolves to an absent value.
C7_RenewWithoutTokenDoesNothing ==
  /\ [](\A p \in Procs : Renew(p) /\ ~settings.set =>
          reqs[p] = <<>> /\ ~Wrote(p) /\ pc[p] \in {"load", "done", "threw"})
  /\ [][\A p \in Procs : Renew(p) /\ ~settings.set /\ pc'[p] # pc[p] /\ Renew(p)' =>
          files' = files /\ settings' = settings /\ issued' = issued]_vars
C7_Witness ==
  \E p \in Procs : Renew(p) /\ ~settings.set /\ pc[p] = "threw" /\ reqs[p] = <<>>

\* C8 (as claimed): after two renew invocations in succession with a valid
\* persisted token, the three files all come from one and the same
\* issuance: no mix of the values of two issuances.
ValidToken == settings.set /\ Truthy(settings.value.name)
C8_TwoRenewalsLeaveOneBundle ==
  recent = <<"renew", "renew">> /\ Quiet /\ ValidToken =>
    /\ files.privatekey.id = files.certificate.id
    /\ files.chain.id = files.certificate.id

\* C9: the dnsconfig requests of a register invocation are, in order, the
\* digests the ACME client handed to leDnsResponse, each sent unchanged as
\* challenge together with the token of this invocation's subscribe
\* response; none is sent before that response has given a token.
DnsConfigsSent(p) == SelectSeq(reqs[p], LAMBDA r : r.op = "dnsconfig")
C9_DnsConfigCarriesDigestAndToken ==
  \A p \in Procs :
    Register(p) =>
      /\ Len(DnsConfigsSent(p)) = Len(handed[p])
      /\ \A i \in 1..Len(handed[p]) :
           /\ DnsConfigsSent(p)[i].challenge = handed[p][i]
           /\ DnsConfigsSent(p)[i].token = jsonToken[p].token
           /\ DnsConfigsSent(p)[i].name = Undefined
      /\ HasOp(p, "dnsconfig") =>
           /\ jsonToken[p].token \in Tokens
           /\ reqs[p][1].op = "subscribe"
C9_Witness ==
  \E p \in Procs : /\ Register(p) /\ pc[p] = "validate" /\ handed[p] = <<"d1">>
                   /\ jsonToken[p].token = "t1" /\ settings.value.token = "t1"

\* C10 (as claimed): in every reachable state the three files are all of
\* one bundle: a certificate write changes all three or none.
C10_CertificateWriteIsAllOrNothing == Whole(files)

\* C11 (as claimed): a renew invocation never ends by throwing to its
\* invoker: it returns, and when it returns without having written a
\* certificate the failure is in the log.
C11_RenewFailuresOnlyLogged ==
  \A p \in Procs :
    Renew(p) => /\ pc[p] # "threw"
                /\ pc[p] = "done" /\ ~Wrote(p) => logs[p] # <<>>
                /\ cb[p] = <<>>

\* C12: the calls of a register invocation go out in the order subscribe,
\* ACME issuance, dnsconfig (only inside the issuance), setemail, each of
\* subscribe, issuance and setemail once at most; the issuance starts only
\* when the decoded body of this invocation is the persisted record; the
\* files are written only after the issuance was started; setemail is
\* requested only when the three files hold this invocation's bundle.
OpRank(op) == CASE op = "subscribe" -> 1 [] op = "acme" -> 2
                [] op = "dnsconfig" -> 3 [] op = "setemail" -> 4 [] OTHER -> 0
C12_StepsInOrder ==
  \A p \in Procs :
    Register(p) =>
      /\ reqs[p][1].op = "subscribe"
      /\ \A i, j \in 1..Len(reqs[p]) :
           i < j => /\ OpRank(reqs[p][i].op) <= OpRank(reqs[p][j].op)
                    /\ reqs[p][i].op = reqs[p][j].op => reqs[p][i].op = "dnsconfig"
      /\ pc[p] = "save" => Len(reqs[p]) = 1 /\ token[p] = jsonToken[p].token
      /\ HasOp(p, "acme") =>
           ~Truthy(jsonToken[p].error) /\ settings = [set |-> TRUE, value |-> jsonToken[p]]
      /\ Wrote(p) => HasOp(p, "acme")
      /\ HasOp(p, "setemail") => Wrote(p) /\ files = Bundle(results[p])
C12_Witness ==
  \E p \in Procs :
    /\ Register(p) /\ pc[p] = "done" /\ cb[p] = <<NoArg>> /\ Len(reqs[p]) = 4
    /\ reqs[p][2].op = "acme" /\ reqs[p][3].op = "dnsconfig"
    /\ reqs[p][4].op = "setemail"

\* C13 (as claimed): a register invocation calls the callback once: never
\* more than once, and exactly once when it has ended.
C13_CallbackExactlyOnce ==
  \A p \in Procs :
    Register(p) => /\ Len(cb[p]) <= 1
                   /\ pc[p] = "done" => Len(cb[p]) = 1

\* C14 (as claimed): when the ACME issuance of a register invocation failed
\* (le.register rejected, so nothing was written), no setemail request was
\* sent and the flow has ended in Failed: the last thing the caller was
\* told is an error.  When the certificate write failed, no setemail
\* request was sent either.
IssuanceFailed(p) == Register(p) /\ Logged(p, "Registration failed:") /\ ~Wrote(p)
WriteFailed(p) == Register(p) /\ Logged(p, "Registration failed:") /\ Wrote(p)
C14_IssuanceFailureEndsInFailed ==
  \A p \in Procs :
    /\ IssuanceFailed(p) =>
         /\ ~HasOp(p, "setemail")
         /\ pc[p] = "done" /\ cb[p] # <<>> /\ IsErrorArg(cb[p][Len(cb[p])])
    /\ WriteFailed(p) => ~HasOp(p, "setemail")

\* C15: a renew invocation sends nothing to the registration server: all it
\* sends is at most one ACME issuance, with the http-01 challenge, for the
\* domain made of the name of the record it loaded and the base domain;
\* and no step of a renew invocation changes the persisted record.
C15_RenewOnlyIssuesAndWrites ==
  /\ [](\A p \in Procs : Renew(p) =>
          /\ Len(reqs[p]) <= 1
          /\ \A i \in 1..Len(reqs[p]) :
               /\ reqs[p][i].op = "acme"
               /\ reqs[p][i].challengeType = "http-01"
               /\ reqs[p][i].domain = <<tunnelToken[p].value.name, "example.com">>
          /\ Wrote(p) => /\ Len(reqs[p]) = 1
                         /\ results[p].cert.domain = reqs[p][1].domain)
  /\ [][\A p \in Procs : Renew(p) /\ Renew(p)' /\ pc'[p] # pc[p] =>
          settings' = settings]_vars
C15_Witness ==
  \E p \in Procs : /\ Renew(p) /\ pc[p] = "done" /\ files = Bundle(results[p])
                   /\ results[p].cert.id = 2 /\ settings.value.name = "b"

\* C16: with overlapping register and renew invocations and no failing
\* file write, the three files are, at every suspension point, the three
\* parts of the bundle of one issuance: the writes of two invocations are
\* never interleaved.
C16_WritesNeverInterleave == Whole(files)
C16_Witness ==
  \E p, q \in Procs :
    /\ Register(p) /\ pc[p] = "setemail" /\ Renew(q) /\ pc[q] = "done"
    /\ results[p].cert.id = 1 /\ results[q].cert.id = 2
    /\ files = Bundle(results[q])

\* C17 (as claimed): whenever no invocation is in flight and the files
\* exist, they are of a certificate issued for the domain of the persisted
\* tunneltoken record.
C17_CertificateMatchesToken ==
  Quiet /\ files.certificate.id >= 0 =>
    /\ settings.set
    /\ files.certificate.domain = <<settings.value.name, "example.com">>
    /\ files.privatekey.domain = files.certificate.domain
    /\ files.chain.domain = files.certificate.domain

\* C18: when getRules has resolved, its mapping has one entry for every
\* row the SELECT read, keyed by the row's id; a row the migration changes
\* has the migrated description as its entry and its UPDATE with that
\* description has completed; a row the migration leaves alone has the
\* description read as its entry and no UPDATE was issued for it.
C18_GetRulesMigratesOnRead ==
  gpc = "resolved" =>
    /\ DOMAIN rules = DOMAIN rows
    /\ \A id \in DOMAIN rows :
         LET stored == Parse(rows[id])
         IN  IF migrate(stored) # NoDesc
               THEN /\ rules[id] = migrate(stored)
                    /\ <<id, Stringify(migrate(stored))>> \in updates
                    /\ id \in completed
               ELSE /\ rules[id] = stored
                    /\ \A u \in updates : u[1] # id
C18_Witness ==
  /\ gpc = "resolved"
  /\ \E i, j \in DOMAIN rows :
       /\ migrate(Parse(rows[i])) # NoDesc /\ i \in completed
       /\ migrate(Parse(rows[j])) = NoDesc

\* C19 (as claimed): a getRules call settles: once the row query has been
\* answered and no update is outstanding, the promise is resolved or
\* rejected.
C19_GetRulesSettles ==
  gpc \notin {"idle", "query"} /\ pending = {} => Settled

====
